---- MODULE Spec2Model ----
(***************************************************************************)
(* Spicy Bites payment and loyalty points system                           *)
(* (src/payment_loyalty_system.py): the SQLite tables kept by              *)
(* DatabaseManager and the four button callbacks of PaymentSystem.         *)
(*                                                                         *)
(* Money is counted in mills (1/1000 of a dollar), so that 10 mills are    *)
(* one cent and round(x, 2) yields a multiple of 10.  Promo rates are      *)
(* percentages.  The texts typed into the form are drawn from small        *)
(* tables that give their str.strip(), str.upper() and float() images.     *)
(* The timestamp column of a sale is left out.  sqlite_fault is the        *)
(* environment: the database write that sqlite3 will refuse, if any.      *)
(* messagebox is the modal dialog put up by the last callback.            *)
(***************************************************************************)
EXTENDS Integers, Sequences, FiniteSets, TLC

VARIABLES customers, promo_codes, sales, sqlite_fault,
          staff_entry, customer_entry, subtotal_entry, promo_entry, redeem_var,
          customer_info_label, output_text, messagebox,
          last_final_total, last_points_earned, last_discount_amount,
          last_loyalty_redeemed

db == <<customers, promo_codes, sales, sqlite_fault>>
form == <<staff_entry, customer_entry, subtotal_entry, promo_entry, redeem_var>>
last == <<last_final_total, last_points_earned, last_discount_amount,
          last_loyalty_redeemed>>
vars == <<customers, promo_codes, sales, sqlite_fault,
          staff_entry, customer_entry, subtotal_entry, promo_entry, redeem_var,
          customer_info_label, output_text, messagebox,
          last_final_total, last_points_earned, last_discount_amount,
          last_loyalty_redeemed>>

\* Longest sale log explored.
MaxSales == 2

\* Python's None in last_final_total (every real total is >= 0).
None == -1

----------------------------------------------------------------------------
(* Texts and their conversions *)

\* str.strip() on the texts that can be typed into an Entry (and on their
\* upper-case images).
strip(t) ==
    CASE t = " " -> ""
      [] t = "suraj " -> "suraj"
      [] t = "alice " -> "alice"
      [] t = "MEGA90 " -> "MEGA90"
      [] OTHER -> t

\* str.upper() on the promo texts.
upper(t) ==
    CASE t = "spicy10" -> "SPICY10"
      [] t = "mega90 " -> "MEGA90 "
      [] OTHER -> t

\* float(text): the texts float() accepts as a finite number, in mills.
FloatMills ==
    ("-1.00" :> -1000) @@ ("0" :> 0) @@ ("0.006" :> 6) @@ ("0.33" :> 330) @@
    ("1.00" :> 1000) @@ ("50.00" :> 50000) @@ ("100.00" :> 100000)

\* float(text) succeeds and gives a NaN.
FloatNaN == {"nan"}

\* float(text) raises ValueError for every other text ("", "abc").
float_raises(t) == t \notin (DOMAIN FloatMills) \cup FloatNaN

\* Lines 207-213: the try block rejects a text float() cannot parse and a
\* number below zero; NaN < 0 is false, so a NaN passes.
invalid_amount_free(t) == float_raises(t)    \* faulty variant: no sign test
invalid_amount(t) ==
    \/ float_raises(t)
    \/ t \in DOMAIN FloatMills /\ FloatMills[t] < 0

----------------------------------------------------------------------------
(* Arithmetic of process_payment *)

\* round(n/d, 2) for a value of n/d mills: the nearest multiple of 10 mills.
\* An exact half cent is not representable in binary, so which way Python
\* rounds it depends on the representation error; the values explored are
\* never half way (checked by NoHalfCent), and half-even is written here.
round2(n, d) ==
    LET q == n \div (10 * d)
        r == n % (10 * d)
        up == \/ 2 * r > 10 * d
              \/ 2 * r = 10 * d /\ q % 2 = 1
    IN  10 * (q + IF up THEN 1 ELSE 0)

\* Line 218.
promo_discount(subtotal, promo_rate) == round2(subtotal * promo_rate, 100)

\* Lines 224-229.
loyalty_value(subtotal, current_points, redeem) ==
    IF redeem # 0 /\ current_points > 0
    THEN LET max_redeem_value == round2(subtotal * 20, 100)
             possible_value == round2(current_points * 50, 1)
         IN  IF max_redeem_value < possible_value
             THEN max_redeem_value ELSE possible_value
    ELSE 0

\* The cent amounts c up to 20.00 (20% of the largest subtotal explored)
\* for which the binary64 quotient (c/100) / 0.05 falls just below the
\* whole number c/5, so that int() yields one less
\* (0.15 / 0.05 = 2.9999999999999996).
QuotientFallsShort ==
    {15, 30, 35, 60, 70, 95, 115, 120, 140, 145, 165, 190, 205, 215, 230,
     240, 255, 265, 280, 290, 305, 315, 330, 355, 380, 405, 410, 430, 435,
     455, 460, 480, 485, 505, 510, 530, 535, 555, 560, 580, 585, 605, 610,
     630, 635, 660, 685, 710, 735, 760, 785, 810, 820, 835, 845, 860, 870,
     885, 895, 910, 920, 935, 945, 960, 970, 985, 995, 1010, 1020, 1035,
     1045, 1060, 1070, 1085, 1095, 1110, 1120, 1135, 1145, 1160, 1170,
     1185, 1195, 1210, 1220, 1235, 1245, 1260, 1270, 1295, 1320, 1345,
     1370, 1395, 1420, 1445, 1470, 1495, 1520, 1545, 1570, 1595, 1615,
     1620, 1640, 1645, 1665, 1670, 1690, 1695, 1715, 1720, 1740, 1745,
     1765, 1770, 1790, 1795, 1815, 1820, 1840, 1845, 1865, 1870, 1890,
     1895, 1915, 1920, 1940, 1945, 1965, 1970, 1990, 1995}

\* Line 231: int(loyalty_value / 0.05), for a value of whole cents.
loyalty_redeemed(value) ==
    (value \div 50) - IF (value \div 10) \in QuotientFallsShort THEN 1 ELSE 0

\* Lines 234-236 (first a faulty variant: the total is not floored at 0).
intermediate_total_unclamped(subtotal, discount, value) ==
    subtotal - discount - value
intermediate_total(subtotal, discount, value) ==
    IF subtotal - discount - value < 0 THEN 0
    ELSE subtotal - discount - value

\* Line 239: int(intermediate_total * 0.05), in points.
points_earned(total) == (total * 5) \div 100000

\* Lines 246-248 (first two faulty variants: the balance held is left out
\* and the floor at 0 is missing; the points earned are credited twice).
new_points_forgetful(current_points, redeemed, earned) == earned - redeemed
new_points_double(current_points, redeemed, earned) ==
    IF current_points - redeemed + 2 * earned < 0 THEN 0
    ELSE current_points - redeemed + 2 * earned
new_points(current_points, redeemed, earned) ==
    IF current_points - redeemed + earned < 0 THEN 0
    ELSE current_points - redeemed + earned

\* Line 251.
final_total(total) == round2(total, 1)

\* Lines 259 and 269.
discount_amount(discount, value) == round2(discount + value, 1)

----------------------------------------------------------------------------
(* DatabaseManager *)

\* Lines 56-57: the promo codes inserted by _create_tables.
SeededPromoCodes == ("SPICY10" :> 10) @@ ("HOT20" :> 20)

\* Lines 61-64: the row of a customer, or no row.
get_customer(name) == name \in DOMAIN customers

\* Lines 66-73: INSERT OR IGNORE, then UPDATE of membership and points.
add_or_update_customer(table, name, membership, points) ==
    IF name \in DOMAIN table
    THEN [table EXCEPT ![name] = [contact |-> table[name].contact,
                                  membership |-> membership,
                                  loyalty_points |-> points]]
    ELSE table @@ (name :> [contact |-> "", membership |-> membership,
                            loyalty_points |-> points])

\* Lines 75-78: UPDATE of the points of the rows with that name.
update_loyalty_points(table, name, points) ==
    IF name \in DOMAIN table
    THEN [table EXCEPT ![name].loyalty_points = points]
    ELSE table

\* Lines 81-85.
get_promo_discount(code) ==
    IF code \in DOMAIN promo_codes THEN promo_codes[code] ELSE 0

\* Lines 88-103: INSERT INTO sales (AUTOINCREMENT puts the row last; first
\* a faulty variant that puts it first).
record_sale_first(log, sale_record) == <<sale_record>> \o log
record_sale(log, sale_record) == Append(log, sale_record)

----------------------------------------------------------------------------
(* PaymentSystem *)

Ready ==
    [ready |-> TRUE, staff |-> "", name |-> "", subtotal |-> 0,
     promo_discount |-> 0, promo |-> "", loyalty_redeemed |-> 0,
     loyalty_value |-> 0, final_total |-> 0, points_earned |-> 0,
     new_points |-> 0]

NoBox == [title |-> "", message |-> "", args |-> <<>>]

\* Lines 117-128 and 173: the window after construction.
Window ==
    /\ customer_info_label =
           [kind |-> "not loaded", name |-> "", membership |-> "", points |-> 0]
    /\ output_text = Ready
    /\ messagebox = NoBox
    /\ last_final_total = None
    /\ last_points_earned = 0
    /\ last_discount_amount = 0
    /\ last_loyalty_redeemed = 0

\* Lines 136-161: the Entry widgets start empty, the check box unticked.
EmptyForm ==
    /\ staff_entry = "" /\ customer_entry = "" /\ subtotal_entry = ""
    /\ promo_entry = "" /\ redeem_var = 0

\* Lines 180-185: the text put into customer_info_label.
customer_info(table, name) ==
    IF name \in DOMAIN table
    THEN [kind |-> "found", name |-> name,
          membership |-> table[name].membership,
          points |-> table[name].loyalty_points]
    ELSE [kind |-> "not found", name |-> name, membership |-> "", points |-> 0]

\* Lines 175-185: the "Load Customer" button.
load_customer ==
    LET name == strip(customer_entry)
    IN  /\ IF name = ""
           THEN /\ messagebox' = [title |-> "Warning",
                                  message |-> "Enter customer name to load.",
                                  args |-> <<>>]
                /\ UNCHANGED customer_info_label
           ELSE /\ customer_info_label' = customer_info(customers, name)
                /\ messagebox' = NoBox
        /\ UNCHANGED <<db, form, output_text, last>>

\* Lines 187-195: the "Add/Update Customer" button.
add_update_customer ==
    LET name == strip(customer_entry)
    IN  /\ IF name = ""
           THEN /\ messagebox' = [title |-> "Warning",
                                  message |-> "Enter customer name to add/update.",
                                  args |-> <<>>]
                /\ UNCHANGED <<customers, customer_info_label>>
           ELSE /\ customers' = add_or_update_customer(customers, name, "regular", 0)
                /\ messagebox' = [title |-> "Customer",
                                  message |-> "added/updated.",
                                  args |-> <<name>>]
                /\ customer_info_label' = customer_info(customers', name)
        /\ UNCHANGED <<promo_codes, sales, sqlite_fault, form, output_text, last>>

\* The database writes of process_payment that sqlite3 can refuse.
Faults == {"update_loyalty_points", "record_sale"}

\* Lines 197-282: the "Process Payment" button.  A write named by
\* sqlite_fault raises; the exception leaves the callback, and what was
\* committed before it stays committed (lines 73, 78).
process_payment ==
    LET staff == strip(staff_entry)
        name == strip(customer_entry)
    IN
    IF staff = ""
    THEN /\ messagebox' = [title |-> "Staff required",
                           message |-> "Enter staff username (processed_by).",
                           args |-> <<>>]
         /\ UNCHANGED <<db, form, customer_info_label, output_text, last>>
    ELSE IF name = ""
    THEN /\ messagebox' = [title |-> "Customer required",
                           message |-> "Enter customer name.",
                           args |-> <<>>]
         /\ UNCHANGED <<db, form, customer_info_label, output_text, last>>
    ELSE IF invalid_amount(subtotal_entry)
    THEN /\ messagebox' = [title |-> "Invalid amount",
                           message |-> "Enter a valid positive subtotal amount.",
                           args |-> <<>>]
         /\ UNCHANGED <<db, form, customer_info_label, output_text, last>>
    ELSE IF subtotal_entry \in FloatNaN
    THEN \* int() of a NaN raises ValueError at line 231 or 239
         /\ messagebox' = NoBox
         /\ UNCHANGED <<db, form, customer_info_label, output_text, last>>
    ELSE
    LET subtotal == FloatMills[subtotal_entry]
        promo == strip(upper(promo_entry))
        promo_rate == IF promo # "" THEN get_promo_discount(promo) ELSE 0
        discount == promo_discount(subtotal, promo_rate)
        customer == get_customer(name)
        current_points == IF customer THEN customers[name].loyalty_points ELSE 0
        value == loyalty_value(subtotal, current_points, redeem_var)
        redeemed == IF redeem_var # 0 /\ current_points > 0
                    THEN loyalty_redeemed(value) ELSE 0
        total == intermediate_total(subtotal, discount, value)
        earned == points_earned(total)
        added == IF customer THEN customers
                 ELSE add_or_update_customer(customers, name, "regular", 0)
        balance == new_points(current_points, redeemed, earned)
        sale_record == [customer_name |-> name,
                        processed_by |-> staff,
                        subtotal |-> subtotal,
                        discount_amount |-> discount_amount(discount, value),
                        loyalty_redeemed |-> redeemed,
                        final_total |-> final_total(total),
                        points_earned |-> earned]
    IN  /\ Len(sales) < MaxSales
        /\ customers' = IF sqlite_fault = "update_loyalty_points" THEN added
                        ELSE update_loyalty_points(added, name, balance)
        /\ sales' = IF sqlite_fault = "none" THEN record_sale(sales, sale_record)
                    ELSE sales
        /\ IF sqlite_fault = "none"
           THEN /\ last_final_total' = final_total(total)
                /\ last_points_earned' = earned
                /\ last_discount_amount' = discount_amount(discount, value)
                /\ last_loyalty_redeemed' = redeemed
                /\ output_text' =
                       [ready |-> FALSE, staff |-> staff, name |-> name,
                        subtotal |-> subtotal, promo_discount |-> discount,
                        promo |-> promo, loyalty_redeemed |-> redeemed,
                        loyalty_value |-> value,
                        final_total |-> final_total(total),
                        points_earned |-> earned, new_points |-> balance]
           ELSE UNCHANGED <<last, output_text>>
        /\ sqlite_fault' = "none"
        /\ messagebox' = NoBox
        /\ UNCHANGED <<promo_codes, form, customer_info_label>>

\* Lines 284-300: the "Show Receipt" button.
show_receipt ==
    /\ IF last_final_total = None
       THEN messagebox' = [title |-> "No sale",
                           message |-> "Process a payment first.",
                           args |-> <<>>]
       ELSE messagebox' = [title |-> "Receipt",
                           message |-> "Spicy Bites Receipt",
                           args |-> <<strip(staff_entry), strip(customer_entry),
                                      last_final_total, last_discount_amount,
                                      last_loyalty_redeemed, last_points_earned>>]
    /\ UNCHANGED <<db, form, customer_info_label, output_text, last>>

----------------------------------------------------------------------------
(* The operator at the counter *)

StaffTexts == {"", "suraj "}
CustomerTexts == {"", "alice "}
SubtotalTexts == {"", "nan", "-1.00", "50.00"}
PromoTexts == {"", "spicy10"}

\* Lines 136-161: the operator dismisses the dialog and types into one of
\* the Entry widgets, or ticks or unticks the check box.
edit_form ==
    /\ \/ staff_entry' \in StaffTexts
          /\ UNCHANGED <<customer_entry, subtotal_entry, promo_entry, redeem_var>>
       \/ customer_entry' \in CustomerTexts
          /\ UNCHANGED <<staff_entry, subtotal_entry, promo_entry, redeem_var>>
       \/ subtotal_entry' \in SubtotalTexts
          /\ UNCHANGED <<staff_entry, customer_entry, promo_entry, redeem_var>>
       \/ promo_entry' \in PromoTexts
          /\ UNCHANGED <<staff_entry, customer_entry, subtotal_entry, redeem_var>>
       \/ redeem_var' = 1 - redeem_var
          /\ UNCHANGED <<staff_entry, customer_entry, subtotal_entry, promo_entry>>
    /\ messagebox' = NoBox
    /\ UNCHANGED <<db, customer_info_label, output_text, last>>

\* Lines 15, 22-58: spicybites.db is new, or holds a customer of an earlier
\* run; at most one database write of the session is refused.
Init ==
    /\ customers \in {<<>>,
                      "alice" :> [contact |-> "021", membership |-> "gold",
                                  loyalty_points |-> 500]}
    /\ promo_codes = SeededPromoCodes
    /\ sales = <<>>
    /\ sqlite_fault \in {"none"} \cup Faults
    /\ EmptyForm
    /\ Window

Next ==
    \/ edit_form
    \/ load_customer
    \/ add_update_customer
    \/ process_payment
    \/ show_receipt

Spec == Init /\ [][Next]_vars

----------------------------------------------------------------------------
(* One form, filled in once, against a database of an earlier run: the     *)
(* specification under which the arithmetic of a payment is checked, over  *)
(* sub-cent and whole-cent subtotals, known and unknown promo codes, and a *)
(* promo code of the promo_codes table that _create_tables did not seed.   *)

CalcStaffTexts == {"", "suraj "}
CalcCustomerTexts == {"", "alice ", "bob"}
CalcSubtotalTexts ==
    {"", "abc", "nan", "-1.00", "0", "0.006", "0.33", "1.00", "50.00", "100.00"}
CalcPromoTexts == {"", "spicy10", "HOT20", "BOGUS", "mega90 "}
CalcBalances == {0, 3, 500}

InitCalc ==
    /\ customers \in
           {<<>>} \cup
           {"alice" :> [contact |-> "021", membership |-> "gold",
                        loyalty_points |-> b] : b \in CalcBalances}
    /\ promo_codes \in {SeededPromoCodes, SeededPromoCodes @@ ("MEGA90" :> 90)}
    /\ sales = <<>>
    /\ sqlite_fault = "none"
    /\ staff_entry \in CalcStaffTexts
    /\ customer_entry \in CalcCustomerTexts
    /\ subtotal_entry \in CalcSubtotalTexts
    /\ promo_entry \in CalcPromoTexts
    /\ redeem_var \in {0, 1}
    /\ Window

NextCalc == process_payment

SpecCalc == InitCalc /\ [][NextCalc]_vars

----------------------------------------------------------------------------
(* Properties *)

\* The form holds an input that lines 199-213 are to reject.
InvalidInput ==
    \/ strip(staff_entry) = ""
    \/ strip(customer_entry) = ""
    \/ subtotal_entry \notin (DOMAIN FloatMills) \cup FloatNaN
    \/ subtotal_entry \in DOMAIN FloatMills /\ FloatMills[subtotal_entry] < 0

\* The form holds an input that process_payment carries through.
ValidInput == ~InvalidInput /\ subtotal_entry \notin FloatNaN

\* This step appended a sale: a payment was processed successfully.
Paid == Len(sales') = Len(sales) + 1

\* The balance the customer of the form holds before the step (0: no row).
BalanceBefore ==
    IF strip(customer_entry) \in DOMAIN customers
    THEN customers[strip(customer_entry)].loyalty_points ELSE 0

\* No product rounded by the payment of the form lies on an exact half
\* cent, where round2 would have to follow the binary representation.
NoHalfCent ==
    ValidInput =>
        LET subtotal == FloatMills[subtotal_entry]
            promo_rate == get_promo_discount(strip(upper(promo_entry)))
        IN  /\ 2 * ((subtotal * promo_rate) % 1000) # 1000
            /\ 2 * ((subtotal * 20) % 1000) # 1000

\* C1: in every reachable state every stored customer's loyalty point
\* balance is >= 0.
C1_BalanceNonNegative ==
    \A n \in DOMAIN customers : customers[n].loyalty_points >= 0

\* C1 witness: a payment redeemed points and the customer still holds some.
C1_Witness ==
    /\ \E i \in 1..Len(sales) :
          sales[i].customer_name = "alice" /\ sales[i].loyalty_redeemed > 0
    /\ "alice" \in DOMAIN customers
    /\ customers["alice"].loyalty_points > 0

\* C2: a transaction is all-or-nothing: a process_payment in which a
\* database write fails leaves neither a new balance nor a sale record.
C2_AllOrNothing ==
    [][(process_payment /\ sqlite_fault # "none") =>
         /\ sales' = sales
         /\ \A n \in DOMAIN customers' :
                customers'[n].loyalty_points =
                    IF n \in DOMAIN customers
                    THEN customers[n].loyalty_points ELSE 0]_vars

\* C3: the ledger update of a processed payment is the only way the
\* balance of an existing customer changes: a step that is not a payment
\* leaves every existing customer's balance as it was.
C3_OnlyPaymentsChangeBalance ==
    [][\A n \in DOMAIN customers :
           \/ process_payment
           \/ /\ n \in DOMAIN customers'
              /\ customers'[n].loyalty_points = customers[n].loyalty_points]_vars

\* C4: for every recorded sale the stored discount amount (promo discount
\* plus loyalty redemption value) never exceeds the subtotal.
C4_DiscountWithinSubtotal ==
    \A i \in 1..Len(sales) : sales[i].discount_amount <= sales[i].subtotal

\* C5 as claimed: the final total of every payment satisfies
\* 0 <= finalTotal <= subtotal.
C5_FinalTotalWithinSubtotal ==
    \A i \in 1..Len(sales) :
        /\ 0 <= sales[i].final_total
        /\ sales[i].final_total <= sales[i].subtotal

\* C5 as amended: the final total of every payment satisfies
\* 0 <= finalTotal <= the subtotal rounded to two decimals.
C5_FinalTotalWithinRoundedSubtotal ==
    \A i \in 1..Len(sales) :
        /\ 0 <= sales[i].final_total
        /\ sales[i].final_total <= round2(sales[i].subtotal, 1)

\* C5 witness: a sub-cent subtotal was paid in full and its total, rounded
\* to cents, stands above it and at the rounded subtotal.
C5_Witness ==
    \E i \in 1..Len(sales) :
        /\ sales[i].subtotal = 6 /\ sales[i].discount_amount = 0
        /\ sales[i].final_total = 10

\* C6: a process_payment call with an invalid input (empty staff, empty
\* customer name, non-numeric or negative subtotal) leaves the customers
\* table, the sales log and the saved last-receipt values unchanged.
C6_RejectedBeforePersistence ==
    [][(process_payment /\ InvalidInput)
           => UNCHANGED <<customers, sales, last>>]_vars

\* C6 witness: the amount was rejected after a sale had been recorded for a
\* stored customer.
C6_Witness ==
    /\ messagebox.title = "Invalid amount"
    /\ Len(sales) > 0
    /\ last_final_total # None
    /\ DOMAIN customers # {}

\* C7: after a successfully processed payment the stored balance equals
\* max(0, currentBalance - pointsRedeemed + pointsEarned), currentBalance
\* being 0 for a customer the payment creates (subtotal 50, no promo,
\* balance 500, redeem on: 302).
C7_LedgerRule ==
    [][Paid =>
         LET rec == sales'[Len(sales')]
             n == rec.customer_name
             expected == BalanceBefore - rec.loyalty_redeemed + rec.points_earned
         IN  /\ n = strip(customer_entry)
             /\ n \in DOMAIN customers'
             /\ customers'[n].loyalty_points =
                    IF expected < 0 THEN 0 ELSE expected
             /\ (/\ subtotal_entry = "50.00" /\ strip(upper(promo_entry)) = ""
                 /\ BalanceBefore = 500 /\ redeem_var = 1)
                    => customers'[n].loyalty_points = 302]_vars

\* C7 witness: the payment of 50.00 by the customer holding 500 points.
C7_Witness ==
    /\ Len(sales) = 1
    /\ sales[1].customer_name = "alice"
    /\ sales[1].subtotal = 50000 /\ sales[1].discount_amount = 10000
    /\ sales[1].loyalty_redeemed = 200 /\ sales[1].points_earned = 2
    /\ customers["alice"].loyalty_points = 302

\* C8: process_payment computes (promoDiscount, redeemValue, pointsRedeemed,
\* finalTotal, pointsEarned) as the reference calculator does: promoDiscount
\* = round(subtotal x rate, 2), rate 0 for an absent or unknown code;
\* redeemValue = min(round(20% of subtotal, 2), balance x 0.05) and
\* pointsRedeemed = floor(redeemValue / 0.05) when redeem is requested and
\* the balance is > 0, else both 0; finalTotal = round(max(0, subtotal -
\* promoDiscount - redeemValue), 2); pointsEarned = floor(5% of that total).
C8_ReferenceCalculator ==
    [][Paid =>
         LET subtotal == FloatMills[subtotal_entry]
             code == strip(upper(promo_entry))
             rate == IF code \in DOMAIN promo_codes THEN promo_codes[code] ELSE 0
             promoDiscount == round2(subtotal * rate, 100)
             redeeming == redeem_var = 1 /\ BalanceBefore > 0
             cap == round2(subtotal * 20, 100)
             redeemValue == IF ~redeeming THEN 0
                            ELSE IF cap < BalanceBefore * 50 THEN cap
                            ELSE BalanceBefore * 50
             pointsRedeemed == redeemValue \div 50
             rest == subtotal - promoDiscount - redeemValue
             intermediateTotal == IF rest < 0 THEN 0 ELSE rest
         IN  /\ output_text'.promo_discount = promoDiscount
             /\ output_text'.loyalty_value = redeemValue
             /\ output_text'.loyalty_redeemed = pointsRedeemed
             /\ output_text'.final_total = round2(intermediateTotal, 1)
             /\ output_text'.points_earned = intermediateTotal \div 20000]_vars

\* C9: the sale log is append-only: every successfully processed payment
\* appends exactly one record, carrying that payment's customer, staff,
\* subtotal, discount, points redeemed, final total and points earned, at
\* the end of the log, and no step modifies or removes an earlier record.
C9_SaleLogAppendOnly ==
    [][/\ (process_payment /\ ValidInput /\ sqlite_fault = "none") =>
              sales' = Append(sales,
                  [customer_name |-> strip(customer_entry),
                   processed_by |-> strip(staff_entry),
                   subtotal |-> FloatMills[subtotal_entry],
                   discount_amount |-> output_text'.promo_discount
                                           + output_text'.loyalty_value,
                   loyalty_redeemed |-> output_text'.loyalty_redeemed,
                   final_total |-> output_text'.final_total,
                   points_earned |-> output_text'.points_earned])
       /\ sales' # sales =>
              /\ Len(sales') = Len(sales) + 1
              /\ SubSeq(sales', 1, Len(sales)) = sales]_vars

\* C9 witness: a second, different sale stands behind the first one.
C9_Witness ==
    /\ Len(sales) = 2
    /\ sales[1] # sales[2]
    /\ sales[2].final_total = last_final_total
    /\ sales[2].customer_name = output_text.name

\* C10: whenever process_payment applies a loyalty redemption to a subtotal
\* of whole cents, pointsRedeemed does not exceed the balance before the
\* payment and the dollar amount deducted equals 0.05 x pointsRedeemed.
C10_RedemptionAgrees ==
    [][(Paid /\ FloatMills[subtotal_entry] % 10 = 0) =>
         /\ output_text'.loyalty_redeemed <= BalanceBefore
         /\ output_text'.loyalty_value = 50 * output_text'.loyalty_redeemed]_vars

====
